---------------------------- MODULE Spec2Model ----------------------------
(***************************************************************************)
(* Model of the merge/dedup engine of yello_utils.py: the field            *)
(* normalizers, the similarity judge (is_duplicate), the record merger     *)
(* (merge_entries), the two source streams (the scrape_*_generator         *)
(* coroutines) and the interleaving aggregator (scrape_combined).          *)
(*                                                                         *)
(* Text that the code inspects character by character (names, phones,      *)
(* addresses) is a sequence of one-character strings.  A website is only   *)
(* compared for equality, so it is an atomic string.  A Source is built by *)
(* concatenation only, so it is a sequence of chunks: labels and the       *)
(* separator ", ".                                                         *)
(***************************************************************************)
EXTENDS Integers, Sequences, FiniteSets, Bags, TLC

(***************************************************************************)
(* Bounds of the model.                                                    *)
(***************************************************************************)
MaxLimit == 3
MaxPageLen == 2
MaxPages == 2
NumListings == 3
NumWebsites == 5
MaxTextLen == 5

(***************************************************************************)
(* Characters and strings.                                                 *)
(***************************************************************************)
UpperCase == <<"A", "B", "C", "D", "E", "F", "G", "H", "I", "J", "K", "L", "M",
               "N", "O", "P", "Q", "R", "S", "T", "U", "V", "W", "X", "Y", "Z">>
LowerCase == <<"a", "b", "c", "d", "e", "f", "g", "h", "i", "j", "k", "l", "m",
               "n", "o", "p", "q", "r", "s", "t", "u", "v", "w", "x", "y", "z">>
Digits == {"0", "1", "2", "3", "4", "5", "6", "7", "8", "9"}
Whitespace == {" ", "\t", "\n"}

NA == <<"N", "/", "A">>
NoSite == "N/A"

LowerChar(c) ==
  IF \E i \in 1..26 : UpperCase[i] = c
  THEN LowerCase[CHOOSE i \in 1..26 : UpperCase[i] = c]
  ELSE c

\* str.lower()
lower(s) == [i \in 1..Len(s) |-> LowerChar(s[i])]

RECURSIVE lstrip(_)
lstrip(s) ==
  IF s # <<>> /\ Head(s) \in Whitespace THEN lstrip(Tail(s)) ELSE s

RECURSIVE rstrip(_)
rstrip(s) ==
  IF s # <<>> /\ s[Len(s)] \in Whitespace
  THEN rstrip(SubSeq(s, 1, Len(s) - 1))
  ELSE s

\* str.strip()
strip(s) == rstrip(lstrip(s))

\* re.sub(r"\s+", " ", s): every maximal run of whitespace becomes one space
RECURSIVE collapse(_)
collapse(s) ==
  IF s = <<>> THEN <<>>
  ELSE IF Head(s) \in Whitespace
       THEN <<" ">> \o collapse(lstrip(s))
       ELSE <<Head(s)>> \o collapse(Tail(s))

\* re.sub(r"\D", "", phone)
IsDigit(c) == c \in Digits
normalize_phone(phone) == SelectSeq(phone, IsDigit)

\* a faulty variant: the ends are not stripped
normalize_address_no_strip(address) == collapse(lower(address))

normalize_address(address) == collapse(strip(lower(address)))

(***************************************************************************)
(* rapidfuzz.fuzz.ratio: 100 * 2 * LCS(s1, s2) / (len(s1) + len(s2)), and  *)
(* 100 for two empty strings.  The longest common subsequence is computed  *)
(* row by row; the score is rounded down, which leaves every comparison    *)
(* with an integer threshold unchanged.                                    *)
(***************************************************************************)
SetMax(S) == CHOOSE m \in S : \A n \in S : m >= n

\* prev[j + 1] is the LCS of the characters of s1 before c with the first j
\* characters of s2; the result is the same row with c added to s1
LcsRow(c, s2, prev) ==
  [j \in 1..(Len(s2) + 1) |->
     SetMax({prev[j]} \cup {prev[k] + 1 : k \in {m \in 1..(j - 1) : s2[m] = c}})]

RECURSIVE LcsRows(_, _, _, _)
LcsRows(s1, s2, prev, i) ==
  IF i > Len(s1) THEN prev
  ELSE LcsRows(s1, s2, LcsRow(s1[i], s2, prev), i + 1)

Lcs(s1, s2) ==
  LcsRows(s1, s2, [j \in 1..(Len(s2) + 1) |-> 0], 1)[Len(s2) + 1]

fuzz_ratio(s1, s2) ==
  IF Len(s1) + Len(s2) = 0 THEN 100
  ELSE (200 * Lcs(s1, s2)) \div (Len(s1) + Len(s2))

(***************************************************************************)
(* The similarity judge and the record merger.                             *)
(***************************************************************************)
DefaultThreshold == 85

\* faulty variants: only the new name is lower-cased; a name match needs the
\* phone and the address to match; phones without a digit match nothing
is_duplicate_one_lower(existing, new) ==
  LET name_similarity == fuzz_ratio(existing.Name, lower(new.Name))
      phone_match == normalize_phone(existing.Phone) = normalize_phone(new.Phone)
      address_similarity ==
        fuzz_ratio(normalize_address(existing.Address), normalize_address(new.Address))
  IN \/ (name_similarity >= DefaultThreshold /\ phone_match)
     \/ (name_similarity >= DefaultThreshold /\ address_similarity >= DefaultThreshold)

is_duplicate_needs_address(existing, new) ==
  LET name_similarity == fuzz_ratio(lower(existing.Name), lower(new.Name))
      phone_match == normalize_phone(existing.Phone) = normalize_phone(new.Phone)
      address_similarity ==
        fuzz_ratio(normalize_address(existing.Address), normalize_address(new.Address))
  IN /\ (name_similarity >= DefaultThreshold /\ phone_match)
     /\ (name_similarity >= DefaultThreshold /\ address_similarity >= DefaultThreshold)

is_duplicate_needs_digits(existing, new) ==
  LET name_similarity == fuzz_ratio(lower(existing.Name), lower(new.Name))
      phone_match == /\ normalize_phone(existing.Phone) = normalize_phone(new.Phone)
                     /\ normalize_phone(existing.Phone) # <<>>
      address_similarity ==
        fuzz_ratio(normalize_address(existing.Address), normalize_address(new.Address))
  IN \/ (name_similarity >= DefaultThreshold /\ phone_match)
     \/ (name_similarity >= DefaultThreshold /\ address_similarity >= DefaultThreshold)

is_duplicate(existing, new) ==
  LET name_similarity == fuzz_ratio(lower(existing.Name), lower(new.Name))
      phone_match == normalize_phone(existing.Phone) = normalize_phone(new.Phone)
      address_similarity ==
        fuzz_ratio(normalize_address(existing.Address), normalize_address(new.Address))
  IN \/ (name_similarity >= DefaultThreshold /\ phone_match)
     \/ (name_similarity >= DefaultThreshold /\ address_similarity >= DefaultThreshold)

\* faulty variants: the new source label comes first; the phone of the new
\* record wins; the website of the new record wins whenever it has one
merge_entries_prepends(existing, new) ==
  LET merged == IF new.Website # NoSite /\ existing.Website = NoSite
                THEN [existing EXCEPT !.Website = new.Website]
                ELSE existing
  IN [merged EXCEPT !.Source = new.Source \o <<", ">> \o existing.Source]

merge_entries_new_phone(existing, new) ==
  LET merged == IF new.Website # NoSite /\ existing.Website = NoSite
                THEN [existing EXCEPT !.Website = new.Website, !.Phone = new.Phone]
                ELSE [existing EXCEPT !.Phone = new.Phone]
  IN [merged EXCEPT !.Source = existing.Source \o <<", ">> \o new.Source]

merge_entries_new_website(existing, new) ==
  LET merged == IF new.Website # NoSite
                THEN [existing EXCEPT !.Website = new.Website]
                ELSE existing
  IN [merged EXCEPT !.Source = existing.Source \o <<", ">> \o new.Source]

merge_entries(existing, new) ==
  LET merged == IF new.Website # NoSite /\ existing.Website = NoSite
                THEN [existing EXCEPT !.Website = new.Website]
                ELSE existing
  IN [merged EXCEPT !.Source = existing.Source \o <<", ">> \o new.Source]

(***************************************************************************)
(* What the two directory sites can serve.  An element of a listing is     *)
(* <<text>> when the page has it and <<>> when it has not.                 *)
(***************************************************************************)
YP == "Yellow Pages"
SP == "Superpages"
Sources == {YP, SP}

Name1 == <<"A", "b", "c", "d">>
Name2 == <<"a", "b", "c">>
Name3 == <<"x", "y">>
Phone1 == <<"5", "-", "1">>
Phone1b == <<" ", "5", "1">>
Phone2 == <<"5", "2">>
Street1 == <<"1", " ", "M", "a", "i", "n">>
Street2 == <<"9", " ", "E", "l", "m", " ">>
City1 == <<"W", "A">>
City2 == <<"O", "R">>
Adr1 == <<"1", " ", " ", "m", "a", "i", "n", ",", " ", "w", "a">>
Adr2 == <<"9", " ", "E", "l", "m", ",", "\t", "O", "R">>

YPListing(name, phones, street, locality) ==
  [name |-> name, phones |-> phones, street |-> street, locality |-> locality]
SPListing(name, phone, adr) ==
  [name |-> name, phone |-> phone, adr |-> adr]

YPTable ==
  << YPListing(<<Name1>>, <<Phone1>>, <<Street1>>, <<City1>>),
     YPListing(<<Name1>>, <<Phone2>>, <<Street2>>, <<City2>>),
     YPListing(<<Name3>>, <<>>, <<>>, <<>>),
     YPListing(<<Name2>>, <<Phone1b>>, <<Street2>>, <<City2>>),
     YPListing(<<Name3>>, <<Phone2>>, <<Street1>>, <<>>) >>
SPTable ==
  << SPListing(<<Name2>>, <<Phone1b>>, <<Adr1>>),
     SPListing(<<Name3>>, <<>>, <<Adr2>>),
     SPListing(<<Name1>>, <<Phone2>>, <<Adr1>>),
     SPListing(<<>>, <<Phone1>>, <<>>),
     SPListing(<<Name2>>, <<Phone1>>, <<Adr2>>) >>
\* a Yellow Pages result without the business-name link
YPBroken == YPListing(<<>>, <<Phone1>>, <<Street1>>, <<City1>>)

WebsiteTable == <<"w1", "w2", "w3", "w4", "w5", "w6", "w7", "w8", "w9", "w10">>

\* The website links a listing may carry, given the websites the stream has
\* seen: none, one already seen, or a new one.  The code compares websites
\* for equality only, so the new ones are named in order of appearance.
Links(seen) ==
  {<<>>} \cup {<<w>> : w \in seen}
         \cup {<<WebsiteTable[i]>> : i \in {Cardinality(seen) + 1} \cap (1..NumWebsites)}

Businesses(g) ==
  IF g = YP
  THEN {YPTable[i] : i \in 1..NumListings} \cup {YPBroken}
  ELSE {SPTable[i] : i \in 1..NumListings}

WithLink(l, link) == [business |-> l, link |-> link]
Pool(g, seen) == {WithLink(l, k) : l \in Businesses(g), k \in Links(seen)}

(***************************************************************************)
(* Parsing of one listing (the body of the generators' for loop).          *)
(***************************************************************************)
TextOr(elem, default) == IF elem = <<>> THEN default ELSE strip(elem[1])

\* result.find("a", class_="business-name").text raises when the link is
\* absent (Yellow Pages); Superpages falls back to "N/A"
RaisesOnParse(g, l) == g = YP /\ l.business.name = <<>>

website_of(l) == IF l.link = <<>> THEN NoSite ELSE l.link[1]

yp_record(l) ==
  [Name |-> strip(l.business.name[1]),
   Phone |-> TextOr(l.business.phones, NA),
   Address |-> TextOr(l.business.street, NA) \o <<",", " ">>
                 \o TextOr(l.business.locality, NA),
   Website |-> website_of(l),
   Source |-> <<YP>>]

sp_record(l) ==
  [Name |-> TextOr(l.business.name, NA),
   Phone |-> TextOr(l.business.phone, NA),
   Address |-> TextOr(l.business.adr, NA),
   Website |-> website_of(l),
   Source |-> <<SP>>]

record_of(g, l) == IF g = YP THEN yp_record(l) ELSE sp_record(l)

(***************************************************************************)
(* The aggregator's handling of one pulled record.                         *)
(***************************************************************************)
\* next((company for company in unique_companies if is_duplicate(...)), None):
\* the position of the first matching entry from position i on, 0 for None
RECURSIVE first_duplicate_from(_, _, _)
first_duplicate_from(uc, new, i) ==
  IF i > Len(uc) THEN 0
  ELSE IF is_duplicate(uc[i], new) THEN i
  ELSE first_duplicate_from(uc, new, i + 1)

\* a faulty variant: the last matching entry is taken
last_duplicate(uc, new) ==
  IF \A i \in 1..Len(uc) : ~is_duplicate(uc[i], new) THEN 0
  ELSE CHOOSE i \in 1..Len(uc) :
         /\ is_duplicate(uc[i], new)
         /\ \A j \in (i + 1)..Len(uc) : ~is_duplicate(uc[j], new)

first_duplicate(uc, new) == first_duplicate_from(uc, new, 1)

\* list.index(value): the first position holding an equal value
list_index(uc, value) ==
  CHOOSE i \in 1..Len(uc) : uc[i] = value /\ \A j \in 1..(i - 1) : uc[j] # value

\* a faulty variant: no record is ever merged
absorb_appends(uc, new) == Append(uc, new)

\* a faulty variant: a record that matches an entry is dropped
absorb_drops(uc, new) ==
  IF first_duplicate(uc, new) # 0 THEN uc ELSE Append(uc, new)

absorb(uc, new) ==
  LET d == first_duplicate(uc, new)
  IN IF d # 0
     THEN [uc EXCEPT ![list_index(uc, uc[d])] = merge_entries(uc[d], new)]
     ELSE Append(uc, new)

\* a faulty variant: the end of one stream deactivates both
remove_all(gens, g) == <<>>

\* generators.remove((source, generator))
remove(gens, g) == SelectSeq(gens, LAMBDA h : h # g)

\* a faulty variant: the loop goes on without an active stream
loop_condition_ignores_streams(uc, gens, limit) == Len(uc) < limit

\* line 240: the condition of the while loop
loop_condition(uc, gens, limit) == Len(uc) < limit /\ gens # <<>>

\* a faulty variant: the break comes one entry late
limit_reached_late(uc, limit) == Len(uc) > limit

\* line 262: the condition of the break
limit_reached(uc, limit) == Len(uc) >= limit

\* a faulty variant: the for loop walks the list that remove() shortens
for_sequence_live(copy, live) == live

\* line 241: the for loop walks generators[:], the copy taken when it starts
for_sequence(copy, live) == copy

\* a faulty variant: the stream goes on for one record more
stream_continues_inclusive(scraped, limit) == scraped <= limit

\* lines 62 and 133: the condition of the stream's while loop
stream_continues(scraped, limit) == scraped < limit

\* a faulty variant: the check inside the page comes one record late
stream_full_late(scraped, limit) == scraped > limit

\* lines 74 and 147: the condition of the return inside the page
stream_full(scraped, limit) == scraped >= limit

(***************************************************************************)
(* State.                                                                  *)
(***************************************************************************)
VARIABLES
  total_limit,         \* scrape_combined: the requested limit
  unique_companies,    \* scrape_combined: the result collection
  generators,          \* scrape_combined: the streams still active, in order
  pc,                  \* scrape_combined: "while", "for" or "done"
  round,               \* the copy generators[:] the for loop iterates over
  idx,                 \* position of the for loop in round
  new_entry,           \* the record pulled last, <<>> before the first pull
  gpc,                 \* per stream: "while", "listing", "yield" or "ended"
  businesses_scraped,  \* per stream
  page,                \* per stream
  seen_websites,       \* per stream
  results,             \* per stream: number of listings on the fetched page
  pos,                 \* per stream: position of the for loop in the page
  scripted,            \* TRUE when the sites serve the fixed listings of upstream
  upstream,            \* per stream: script entries not yet parsed (scripted sites)
  emitted,             \* history, per stream: how often each website was emitted
  failure,             \* history, per stream: "none", "first" or "later"
  pulled,              \* history: number of records pulled so far
  last_call,           \* history: the stream of the last next() that came back
  called,              \* history: the streams called in the current for loop
  requested,           \* history: the stream whose page request was the last step
  call                 \* a direct call of merge_entries: arguments and result

vars == <<total_limit, unique_companies, generators, pc, round, idx, new_entry,
          gpc, businesses_scraped, page, seen_websites, results, pos,
          scripted, upstream, emitted, failure, pulled, last_call, called,
          requested, call>>

per_source_limit == total_limit * 2

InitCommon ==
  /\ unique_companies = <<>>
  /\ generators = <<YP, SP>>
  /\ pc = "while"
  /\ round = <<>>
  /\ idx = 0
  /\ new_entry = <<>>
  /\ gpc = [g \in Sources |-> "while"]
  /\ businesses_scraped = [g \in Sources |-> 0]
  /\ page = [g \in Sources |-> 1]
  /\ seen_websites = [g \in Sources |-> {}]
  /\ results = [g \in Sources |-> 0]
  /\ pos = [g \in Sources |-> 0]
  /\ emitted = [g \in Sources |-> EmptyBag]
  /\ failure = [g \in Sources |-> "none"]
  /\ pulled = 0
  /\ last_call = "none"
  /\ called = <<>>
  /\ requested = "none"

NoCall == [state |-> "none"]

Init ==
  /\ total_limit \in 1..MaxLimit
  /\ scripted = FALSE
  /\ upstream = [g \in Sources |-> <<>>]
  /\ call = NoCall
  /\ InitCommon

(***************************************************************************)
(* scrape_combined: the while loop and the return.                         *)
(***************************************************************************)
\* line 240, condition true: the for loop starts over a copy of generators
\* (over an empty copy it ends at once and line 240 is next)
LoopEnter ==
  /\ pc = "while"
  /\ loop_condition(unique_companies, generators, total_limit)
  /\ pc' = IF generators = <<>> THEN "while" ELSE "for"
  /\ round' = generators
  /\ idx' = 1
  /\ called' = IF generators = <<>> THEN <<>> ELSE <<generators[1]>>
  /\ requested' = "none"
  /\ UNCHANGED <<total_limit, unique_companies, generators, new_entry, gpc,
                 businesses_scraped, page, seen_websites, results, pos,
                 scripted, upstream, emitted, failure, pulled, last_call, call>>

\* line 240, condition false: lines 272-274 return the collection
Return ==
  /\ pc = "while"
  /\ ~loop_condition(unique_companies, generators, total_limit)
  /\ pc' = "done"
  /\ requested' = "none"
  /\ UNCHANGED <<total_limit, unique_companies, generators, round, idx,
                 new_entry, gpc, businesses_scraped, page, seen_websites,
                 results, pos, scripted, upstream, emitted, failure, pulled,
                 last_call, called, call>>

\* the stream the for loop of line 241 is calling next() on
Calling(g) ==
  /\ pc = "for"
  /\ idx <= Len(for_sequence(round, generators))
  /\ for_sequence(round, generators)[idx] = g

\* the for loop moves on to its next element and calls next() on it, or ends
\* and line 240 is next
ForNext ==
  IF idx + 1 <= Len(for_sequence(round, generators'))
  THEN /\ pc' = "for" /\ idx' = idx + 1
       /\ called' = Append(called, for_sequence(round, generators')[idx + 1])
  ELSE /\ pc' = "while" /\ idx' = idx
       /\ called' = called

\* lines 264-265: next() raised StopIteration
\* (the stream has returned and its frame, with its locals, is gone)
StopIteration(g) ==
  /\ gpc' = [gpc EXCEPT ![g] = "ended"]
  /\ businesses_scraped' = [businesses_scraped EXCEPT ![g] = 0]
  /\ page' = [page EXCEPT ![g] = 0]
  /\ seen_websites' = [seen_websites EXCEPT ![g] = {}]
  /\ results' = [results EXCEPT ![g] = 0]
  /\ pos' = [pos EXCEPT ![g] = 0]
  /\ generators' = remove(generators, g)
  /\ last_call' = g
  /\ ForNext
  /\ UNCHANGED <<total_limit, unique_companies, round, new_entry, scripted,
                 emitted, pulled, call>>

(***************************************************************************)
(* The source streams.  A stream runs only inside next(), that is while    *)
(* the aggregator is calling it.                                           *)
(***************************************************************************)
(***************************************************************************)
(* The listings of the scenario with two streams of ten records each, three *)
(* of which are the same business on both sites: same name up to case, same *)
(* phone up to punctuation, unrelated address.  All other names are         *)
(* pairwise unrelated.                                                      *)
(***************************************************************************)
DigitTable == <<"0", "1", "2", "3", "4", "5", "6", "7", "8", "9">>
SiteTable == <<"v1", "v2", "v3", "v4", "v5", "v6", "v7", "v8", "v9", "v10">>

scenario_yp(k) ==
  WithLink(YPListing(<< <<LowerCase[k]>> >>,
                     << <<"5", "5", "5", "-", DigitTable[k]>> >>,
                     << <<DigitTable[k], " ", "O", "a", "k">> >>,
                     <<City1>>),
           <<WebsiteTable[k]>>)

\* the Superpages listing at position j: the business of the Yellow Pages
\* listing k when k # 0, a business of its own when k = 0
scenario_sp(j, k) ==
  IF k # 0
  THEN WithLink(SPListing(<< <<UpperCase[k]>> >>,
                          << <<"(", "5", "5", "5", ")", " ", DigitTable[k]>> >>,
                          << <<DigitTable[j], " ", "E", "l", "m">> >>),
                <<WebsiteTable[k]>>)
  ELSE WithLink(SPListing(<< <<LowerCase[10 + j]>> >>,
                          << <<"7", "7", "7", "-", DigitTable[j]>> >>,
                          << <<DigitTable[j], " ", "E", "l", "m">> >>),
                <<SiteTable[j]>>)

\* the listing a scripted site holds under the entry e of its script: <<0, k>>
\* is the Yellow Pages listing k, <<j, k>> the Superpages listing at position j
scripted_listing(e) ==
  IF e[1] = 0 THEN scenario_yp(e[2]) ELSE scenario_sp(e[1], e[2])

\* the listings the site may show at the position the parser has reached
Served(g) ==
  IF scripted
  THEN {scripted_listing(Head(upstream[g]))}
  ELSE Pool(g, seen_websites[g])

\* the lengths the page fetched next may have (a scripted site fills its pages)
PageLengths(g) ==
  IF scripted
  THEN {IF Len(upstream[g]) < MaxPageLen THEN Len(upstream[g]) ELSE MaxPageLen}
  ELSE 0..MaxPageLen

\* line 62 true, lines 64-68: a page with listings arrives
FetchPage(g) ==
  /\ Calling(g) /\ gpc[g] = "while"
  /\ stream_continues(businesses_scraped[g], per_source_limit)
  /\ \E n \in PageLengths(g) \ {0} :
       /\ results' = [results EXCEPT ![g] = n]
       /\ pos' = [pos EXCEPT ![g] = 1]
  /\ gpc' = [gpc EXCEPT ![g] = "listing"]
  /\ requested' = g
  /\ UNCHANGED <<total_limit, unique_companies, generators, pc, round, idx,
                 new_entry, businesses_scraped, page, seen_websites,
                 scripted, upstream, emitted, failure, pulled, last_call,
                 called, call>>

\* lines 70-71: the page has no listing, the stream ends
FetchEmpty(g) ==
  /\ Calling(g) /\ gpc[g] = "while"
  /\ stream_continues(businesses_scraped[g], per_source_limit)
  /\ 0 \in PageLengths(g)
  /\ requested' = g
  /\ StopIteration(g)
  /\ UNCHANGED <<upstream, failure>>

\* lines 64-65 raise, lines 115-117 log: the stream ends
FetchFail(g) ==
  /\ Calling(g) /\ gpc[g] = "while"
  /\ stream_continues(businesses_scraped[g], per_source_limit)
  /\ failure' = [failure EXCEPT ![g] = IF page[g] = 1 THEN "first" ELSE "later"]
  /\ requested' = g
  /\ StopIteration(g)
  /\ UNCHANGED upstream

\* line 62 false: the stream has emitted its limit
WhileExit(g) ==
  /\ Calling(g) /\ gpc[g] = "while"
  /\ ~stream_continues(businesses_scraped[g], per_source_limit)
  /\ requested' = "none"
  /\ StopIteration(g)
  /\ UNCHANGED <<upstream, failure>>

\* page += 1.  The page number only goes into the request, and what the site
\* answers is free in this model, so the numbers above MaxPages are not told
\* apart: MaxPages + 1 stands for all of them.
next_page(n) == IF n <= MaxPages THEN n + 1 ELSE n

\* the for loop of line 73 is over: lines 112-113
PageDone(g) ==
  /\ Calling(g) /\ gpc[g] = "listing"
  /\ pos[g] > results[g]
  /\ page' = [page EXCEPT ![g] = next_page(@)]
  /\ gpc' = [gpc EXCEPT ![g] = "while"]
  /\ requested' = "none"
  /\ UNCHANGED <<total_limit, unique_companies, generators, pc, round, idx,
                 new_entry, businesses_scraped, seen_websites, results, pos,
                 scripted, upstream, emitted, failure, pulled, last_call,
                 called, call>>

\* lines 74-75: return in the middle of a page
LimitReturn(g) ==
  /\ Calling(g) /\ gpc[g] = "listing"
  /\ pos[g] <= results[g]
  /\ stream_full(businesses_scraped[g], per_source_limit)
  /\ requested' = "none"
  /\ StopIteration(g)
  /\ UNCHANGED <<upstream, failure>>

\* what parsing a listing leaves of the scripted site
Parsed(g) == IF scripted THEN [upstream EXCEPT ![g] = Tail(@)] ELSE upstream

\* line 77 raises, lines 118-120 log: the stream ends
ParseFail(g) ==
  /\ Calling(g) /\ gpc[g] = "listing"
  /\ pos[g] <= results[g]
  /\ ~stream_full(businesses_scraped[g], per_source_limit)
  /\ {l \in Served(g) : RaisesOnParse(g, l)} # {}
  /\ upstream' = Parsed(g)
  /\ failure' = [failure EXCEPT ![g] = "later"]
  /\ requested' = "none"
  /\ StopIteration(g)

\* lines 81-82: a listing without website, or with one already seen
\* a faulty variant: a website already seen is emitted again
skips_missing_only(g, l) == website_of(l) = NoSite

\* a faulty variant: a listing without website is emitted
skips_seen_only(g, l) == website_of(l) \in seen_websites[g]

skips(g, l) == website_of(l) = NoSite \/ website_of(l) \in seen_websites[g]

Skip(g) ==
  /\ Calling(g) /\ gpc[g] = "listing"
  /\ pos[g] <= results[g]
  /\ ~stream_full(businesses_scraped[g], per_source_limit)
  /\ {l \in Served(g) : ~RaisesOnParse(g, l) /\ skips(g, l)} # {}
  /\ upstream' = Parsed(g)
  /\ pos' = [pos EXCEPT ![g] = @ + 1]
  /\ requested' = "none"
  /\ UNCHANGED <<total_limit, unique_companies, generators, pc, round, idx,
                 new_entry, gpc, businesses_scraped, page, seen_websites,
                 results, scripted, emitted, failure, pulled, last_call,
                 called, call>>

\* lines 84-108: the stream yields a record; lines 243-263 and 270: the
\* aggregator merges or appends it and stops at the limit
Yield(g) ==
  /\ Calling(g) /\ gpc[g] = "listing"
  /\ pos[g] <= results[g]
  /\ ~stream_full(businesses_scraped[g], per_source_limit)
  /\ \E l \in Served(g) :
       /\ ~RaisesOnParse(g, l) /\ ~skips(g, l)
       /\ seen_websites' = [seen_websites EXCEPT ![g] = @ \cup {website_of(l)}]
       /\ emitted' = [emitted EXCEPT ![g] = @ (+) SetToBag({website_of(l)})]
       /\ new_entry' = record_of(g, l)
       /\ unique_companies' = absorb(unique_companies, record_of(g, l))
  /\ upstream' = Parsed(g)
  /\ gpc' = [gpc EXCEPT ![g] = "yield"]
  /\ pulled' = pulled + 1
  /\ last_call' = g
  /\ requested' = "none"
  /\ generators' = generators
  /\ IF limit_reached(unique_companies', total_limit)
     THEN pc' = "while" /\ idx' = idx /\ called' = called
     ELSE ForNext
  /\ UNCHANGED <<total_limit, round, businesses_scraped, page,
                 results, pos, scripted, failure, call>>

\* next() on a stream suspended at the yield: line 110, then line 73 again
Resume(g) ==
  /\ Calling(g) /\ gpc[g] = "yield"
  /\ businesses_scraped' = [businesses_scraped EXCEPT ![g] = @ + 1]
  /\ pos' = [pos EXCEPT ![g] = @ + 1]
  /\ gpc' = [gpc EXCEPT ![g] = "listing"]
  /\ requested' = "none"
  /\ UNCHANGED <<total_limit, unique_companies, generators, pc, round, idx,
                 new_entry, page, seen_websites, results, scripted, upstream,
                 emitted, failure, pulled, last_call, called, call>>

Next ==
  \/ LoopEnter
  \/ Return
  \/ \E g \in Sources : FetchPage(g)
  \/ \E g \in Sources : FetchEmpty(g)
  \/ \E g \in Sources : FetchFail(g)
  \/ \E g \in Sources : WhileExit(g)
  \/ \E g \in Sources : PageDone(g)
  \/ \E g \in Sources : LimitReturn(g)
  \/ \E g \in Sources : ParseFail(g)
  \/ \E g \in Sources : Skip(g)
  \/ \E g \in Sources : Yield(g)
  \/ \E g \in Sources : Resume(g)

Spec == Init /\ [][Next]_vars

\* scrape_combined is one sequential program: while a step is possible, one is
\* taken
FairSpec == Init /\ [][Next]_vars /\ WF_vars(Next)

(***************************************************************************)
(* merge_entries called directly, on records that need not come from a     *)
(* stream: the website may be "N/A" and the Source may be a joined one.    *)
(***************************************************************************)
MergeArgs ==
  [Name : {Name1, Name2},
   Phone : {Phone1, NA},
   Address : {Adr1, NA},
   Website : {NoSite, "w1", "w2"},
   Source : {<<YP>>, <<SP>>, <<YP, ", ", SP>>}]

MergeInit ==
  /\ total_limit = 1
  /\ scripted = FALSE
  /\ upstream = [g \in Sources |-> <<>>]
  /\ InitCommon
  /\ \E a \in MergeArgs, b \in MergeArgs :
       call = [state |-> "called", existing |-> a, new |-> b]

MergeCall ==
  /\ call.state = "called"
  /\ call' = [state |-> "returned", existing |-> call.existing, new |-> call.new,
              merged |-> merge_entries(call.existing, call.new)]
  /\ UNCHANGED <<total_limit, unique_companies, generators, pc, round, idx,
                 new_entry, gpc, businesses_scraped, page, seen_websites,
                 results, pos, scripted, upstream, emitted, failure, pulled,
                 last_call, called, requested>>

MergeSpec == MergeInit /\ [][MergeCall]_vars

(***************************************************************************)
(* is_duplicate called directly, with the default threshold, on any two    *)
(* records: names that differ in case or in a letter, phones that differ   *)
(* in punctuation, "N/A" and empty fields.                                 *)
(***************************************************************************)
Records ==
  [Name : {Name1, Name2, Name3, <<>>},
   Phone : {Phone1, Phone1b, Phone2, NA, <<>>},
   Address : {Adr1, Adr2, NA, <<>>},
   Website : {"w1"},
   Source : {<<YP>>}]

DuplicateInit ==
  /\ total_limit = 1
  /\ scripted = FALSE
  /\ upstream = [g \in Sources |-> <<>>]
  /\ InitCommon
  /\ \E a \in Records, b \in Records :
       call = [state |-> "called", existing |-> a, new |-> b]

DuplicateCall ==
  /\ call.state = "called"
  /\ call' = [state |-> "returned", existing |-> call.existing, new |-> call.new,
              duplicate |-> is_duplicate(call.existing, call.new)]
  /\ UNCHANGED <<total_limit, unique_companies, generators, pc, round, idx,
                 new_entry, gpc, businesses_scraped, page, seen_websites,
                 results, pos, scripted, upstream, emitted, failure, pulled,
                 last_call, called, requested>>

DuplicateSpec == DuplicateInit /\ [][DuplicateCall]_vars

(***************************************************************************)
(* normalize_address called directly on every string of at most MaxTextLen *)
(* characters over a letter of each case and two kinds of whitespace.      *)
(***************************************************************************)
Alphabet == {"A", "b", " ", "\t"}
Texts == UNION {[1..n -> Alphabet] : n \in 0..MaxTextLen}

AddressInit ==
  /\ total_limit = 1
  /\ scripted = FALSE
  /\ upstream = [g \in Sources |-> <<>>]
  /\ InitCommon
  /\ \E s \in Texts : call = [state |-> "called", address |-> s]

AddressCall ==
  /\ call.state = "called"
  /\ call' = [state |-> "returned", address |-> call.address,
              normalized |-> normalize_address(call.address)]
  /\ UNCHANGED <<total_limit, unique_companies, generators, pc, round, idx,
                 new_entry, gpc, businesses_scraped, page, seen_websites,
                 results, pos, scripted, upstream, emitted, failure, pulled,
                 last_call, called, requested>>

AddressSpec == AddressInit /\ [][AddressCall]_vars

(***************************************************************************)
(* The scenario: limit 5 and scripted sites.  The three businesses listed   *)
(* on both sites may sit anywhere in either stream, in the same order.     *)
(***************************************************************************)
Triples == {t \in (1..10) \X (1..10) \X (1..10) : t[1] < t[2] /\ t[2] < t[3]}

ScenarioInit ==
  /\ total_limit = 5
  /\ scripted = TRUE
  /\ call = NoCall
  /\ InitCommon
  /\ \E y \in Triples, z \in Triples :
       upstream =
         [g \in Sources |->
            IF g = YP
            THEN [k \in 1..10 |-> <<0, k>>]
            ELSE [j \in 1..10 |->
                    <<j, IF j = z[1] THEN y[1]
                         ELSE IF j = z[2] THEN y[2]
                         ELSE IF j = z[3] THEN y[3]
                         ELSE 0>>]]

\* the steps the scenario allows: no fetch fails, every listing is complete and
\* has a website of its own, and no stream is asked for an eleventh record
ScenarioNext ==
  \/ LoopEnter
  \/ Return
  \/ \E g \in Sources : FetchPage(g)
  \/ \E g \in Sources : PageDone(g)
  \/ \E g \in Sources : Yield(g)
  \/ \E g \in Sources : Resume(g)

ScenarioSpec == ScenarioInit /\ [][ScenarioNext]_vars

(***************************************************************************)
(* Properties.                                                             *)
(***************************************************************************)
Active == {generators[i] : i \in 1..Len(generators)}
Labels(source) == {source[i] : i \in 1..Len(source)} \ {", "}
IsPrefix(s, t) == Len(s) <= Len(t) /\ SubSeq(t, 1, Len(s)) = s
Matching(uc, new) == {i \in 1..Len(uc) : is_duplicate(uc[i], new)}
\* a step in which the aggregator has pulled a record
PullStep == pulled' = pulled + 1

\* C1: the result collection never holds more than `limit` entries, in every
\* state of the loop and at return.
C1_SizeWithinLimit == Len(unique_companies) <= total_limit

C1_Witness ==
  /\ pc = "done"
  /\ total_limit >= 2
  /\ Len(unique_companies) = total_limit
  /\ pulled > total_limit

\* C2: no two distinct entries of the result collection are judged matching by
\* is_duplicate, after every processed record and at return.
C2_NoMatchingEntries ==
  \A i, j \in 1..Len(unique_companies) :
    i # j => ~is_duplicate(unique_companies[i], unique_companies[j])

C2_Witness ==
  /\ pc = "done"
  /\ Len(unique_companies) >= 2
  /\ \E i \in 1..Len(unique_companies) : Len(unique_companies[i].Source) > 1

\* C3: in the scenario (limit 5, two streams of ten records, three businesses on
\* both sites matched by phone) the output has exactly 5 entries, the limit, and
\* every entry a duplicate went into has the source "Yellow Pages, Superpages"
\* or "Superpages, Yellow Pages".
PairSources == {<<YP, ", ", SP>>, <<SP, ", ", YP>>}

C3_ScenarioOutput ==
  pc = "done" =>
    /\ Len(unique_companies) = 5
    /\ \A i \in 1..Len(unique_companies) :
         \/ unique_companies[i].Source \in {<<YP>>, <<SP>>}
         \/ unique_companies[i].Source \in PairSources

\* C3 as stated: the output of the scenario has exactly 7 entries.
C3_SevenEntries ==
  pc = "done" =>
    /\ Len(unique_companies) = 7
    /\ \A i \in 1..Len(unique_companies) :
         Len(unique_companies[i].Source) > 1 =>
           unique_companies[i].Source \in PairSources

C3_Witness ==
  /\ pc = "done"
  /\ scripted
  /\ Len(unique_companies) = 5
  /\ \E i, j \in 1..Len(unique_companies) :
       /\ unique_companies[i].Source = <<YP, ", ", SP>>
       /\ unique_companies[j].Source = <<SP, ", ", YP>>

\* C4: a stream that fails is only deactivated; the aggregator goes on with the
\* other stream until that one ends too or the limit is reached, and returns at
\* most `limit` entries; after a failure on the first page fetch no returned
\* entry carries the failed stream's label.
C4_FailureOnlyDeactivates ==
  /\ \A g \in Sources :
       failure[g] # "none" =>
         /\ gpc[g] = "ended" /\ g \notin Active
         /\ failure[g] = "first" =>
              \A i \in 1..Len(unique_companies) :
                g \notin Labels(unique_companies[i].Source)
  /\ pc = "done" =>
       /\ Len(unique_companies) <= total_limit
       /\ Len(unique_companies) < total_limit => \A g \in Sources : gpc[g] = "ended"

C4_Witness ==
  /\ pc = "done"
  /\ failure[YP] = "first"
  /\ total_limit >= 2
  /\ Len(unique_companies) = total_limit

\* C5: when both streams are exhausted and the collection is still below the
\* limit, scrape_combined terminates: the loop exits and the collection built so
\* far, of size < limit, is returned.
C5_ExhaustionTerminates ==
  (generators = <<>> /\ Len(unique_companies) < total_limit)
    ~> (pc = "done" /\ generators = <<>> /\ Len(unique_companies) < total_limit)

C5_Witness ==
  /\ pc = "done"
  /\ generators = <<>>
  /\ unique_companies # <<>>
  /\ Len(unique_companies) < total_limit

\* C6: first match wins.  A pulled record that matches entries of the collection
\* replaces the matching entry of smallest index by its merge with the record and
\* leaves every other entry and the length alone; a record that matches none is
\* appended and leaves every existing entry alone.
C6_FirstMatchWins ==
  [][PullStep =>
       \/ /\ \A i \in 1..Len(unique_companies) :
               ~is_duplicate(unique_companies[i], new_entry')
          /\ unique_companies' = Append(unique_companies, new_entry')
       \/ \E m \in 1..Len(unique_companies) :
            /\ is_duplicate(unique_companies[m], new_entry')
            /\ \A j \in 1..(m - 1) : ~is_duplicate(unique_companies[j], new_entry')
            /\ unique_companies' =
                 [unique_companies EXCEPT ![m] = merge_entries(@, new_entry')]]_vars

\* the record pulled last matched two entries and went into the first of them
C6_Witness ==
  /\ pulled > 0
  /\ Cardinality(Matching(unique_companies, new_entry)) >= 2
  /\ LET m == CHOOSE i \in Matching(unique_companies, new_entry) :
                \A j \in Matching(unique_companies, new_entry) : i <= j
     IN /\ Len(unique_companies[m].Source) > 1
        /\ \A i \in 1..Len(unique_companies) :
             i # m => Len(unique_companies[i].Source) = 1

\* C7: a merge sets the Source to the entry's Source, ", " and the record's
\* Source; so the Source at an index only grows: its earlier value is a prefix of
\* every later one.
C7_SourceAppendOnly ==
  [][/\ \A i \in 1..Len(unique_companies) :
          /\ i <= Len(unique_companies')
          /\ IsPrefix(unique_companies[i].Source, unique_companies'[i].Source)
     /\ PullStep /\ Len(unique_companies') = Len(unique_companies) =>
          \E i \in 1..Len(unique_companies) :
            unique_companies'[i].Source =
              unique_companies[i].Source \o <<", ">> \o new_entry'.Source]_vars

C7_Witness ==
  \E i \in 1..Len(unique_companies) :
    /\ Len(unique_companies[i].Source) >= 5
    /\ Labels(unique_companies[i].Source) = Sources

\* C8: within one run of a stream no two emitted records have the same website,
\* whatever the pages list and across page boundaries.
C8_WebsitesUniquePerStream ==
  \A g \in Sources :
    \A w \in BagToSet(emitted[g]) : CopiesIn(w, emitted[g]) = 1

C8_Witness ==
  \E g \in Sources :
    /\ page[g] >= 2
    /\ BagCardinality(emitted[g]) >= 3

\* C9: an accepted record is never removed: the length of the collection never
\* decreases and Name, Phone and Address at an index never change.
C9_EntriesKept ==
  [][/\ Len(unique_companies') >= Len(unique_companies)
     /\ \A i \in 1..Len(unique_companies) :
          /\ unique_companies'[i].Name = unique_companies[i].Name
          /\ unique_companies'[i].Phone = unique_companies[i].Phone
          /\ unique_companies'[i].Address = unique_companies[i].Address]_vars

\* a record with another name, phone and address went into an entry
C9_Witness ==
  /\ pulled > 0
  /\ \E i \in Matching(unique_companies, new_entry) :
       /\ Len(unique_companies[i].Source) > 1
       /\ unique_companies[i].Name # new_entry.Name
       /\ unique_companies[i].Phone # new_entry.Phone
       /\ unique_companies[i].Address # new_entry.Address

\* C10: merge_entries(a, b) has the website of b when a has none ("N/A") and b
\* has one, and the website of a in every other case; its Name, Phone and
\* Address are those of a.
C10_MergeFields ==
  call.state = "returned" =>
    /\ call.merged.Website =
         IF call.existing.Website = NoSite /\ call.new.Website # NoSite
         THEN call.new.Website
         ELSE call.existing.Website
    /\ call.merged.Name = call.existing.Name
    /\ call.merged.Phone = call.existing.Phone
    /\ call.merged.Address = call.existing.Address

C10_Witness ==
  /\ call.state = "returned"
  /\ call.existing.Website = NoSite
  /\ call.new.Website = "w2"
  /\ call.merged.Website = "w2"
  /\ call.new.Phone # call.existing.Phone

\* C11: is_duplicate is reflexive: is_duplicate(a, a) with the default threshold
\* is true for every record a, also when its phone or address is "N/A" or empty.
C11_Reflexive ==
  (call.state = "returned" /\ call.existing = call.new) => call.duplicate

C11_Witness ==
  /\ call.state = "returned"
  /\ call.existing = call.new
  /\ call.new.Name = Name1
  /\ call.new.Phone = NA
  /\ call.new.Address = <<>>
  /\ call.duplicate

\* C12: when the normalized phones of a and b are equal and not empty and the
\* similarity of the lower-cased names is at least the threshold, is_duplicate(a,
\* b) is true, whatever the addresses.
C12_PhoneAndName ==
  ( /\ call.state = "returned"
    /\ normalize_phone(call.existing.Phone) = normalize_phone(call.new.Phone)
    /\ normalize_phone(call.existing.Phone) # <<>>
    /\ fuzz_ratio(lower(call.existing.Name), lower(call.new.Name)) >= DefaultThreshold )
  => call.duplicate

\* same business under two spellings of name and phone, at unrelated addresses
C12_Witness ==
  /\ call.state = "returned"
  /\ call.existing.Name = Name1 /\ call.new.Name = Name2
  /\ call.existing.Phone = Phone1 /\ call.new.Phone = Phone1b
  /\ call.existing.Address = Adr1 /\ call.new.Address = Adr2
  /\ fuzz_ratio(normalize_address(Adr1), normalize_address(Adr2)) < DefaultThreshold
  /\ call.duplicate

\* str.split(): the maximal runs of characters that are not whitespace
RECURSIVE Words(_)
Words(s) ==
  LET starts == {i \in 1..Len(s) : s[i] \notin Whitespace}
  IN IF starts = {} THEN <<>>
     ELSE LET a == CHOOSE i \in starts : \A j \in starts : i <= j
              stops == {i \in a..Len(s) : s[i] \in Whitespace}
              b == IF stops = {} THEN Len(s) + 1
                   ELSE CHOOSE i \in stops : \A j \in stops : i <= j
          IN <<SubSeq(s, a, b - 1)>> \o Words(SubSeq(s, b, Len(s)))

\* " ".join(words)
RECURSIVE Join(_)
Join(words) ==
  IF words = <<>> THEN <<>>
  ELSE IF Len(words) = 1 THEN words[1]
  ELSE words[1] \o <<" ">> \o Join(Tail(words))

IsUpper(c) == \E i \in 1..26 : UpperCase[i] = c

\* C13: normalize_address returns the input lower-cased, without leading and
\* trailing whitespace and with one space for every maximal run of whitespace: the
\* result has no upper-case letter, no whitespace at either end and no two
\* adjacent whitespace characters; and normalize_address is idempotent.
C13_Normalized ==
  call.state = "returned" =>
    /\ call.normalized = Join(Words([i \in 1..Len(call.address) |->
                                       LowerChar(call.address[i])]))
    /\ \A i \in 1..Len(call.normalized) : ~IsUpper(call.normalized[i])
    /\ call.normalized # <<>> =>
         /\ call.normalized[1] \notin Whitespace
         /\ call.normalized[Len(call.normalized)] \notin Whitespace
    /\ \A i \in 1..(Len(call.normalized) - 1) :
         ~(call.normalized[i] \in Whitespace /\ call.normalized[i + 1] \in Whitespace)
    /\ normalize_address(call.normalized) = call.normalized

C13_Witness ==
  /\ call.state = "returned"
  /\ call.address = <<"\t", "A", " ", "\t", "b">>
  /\ call.normalized = <<"a", " ", "b">>

\* C14: once the collection holds `limit` entries no next() is called on any
\* stream any more: no record is pulled, no stream runs and no page is requested,
\* also when the first stream of a round filled the collection and the second,
\* still active, has not been pulled in that round.
C14_StopsAtLimit ==
  [][Len(unique_companies) >= total_limit =>
       /\ pc' # "for"
       /\ pulled' = pulled
       /\ gpc' = gpc
       /\ requested' = "none"]_vars

C14_Witness ==
  /\ pc = "done"
  /\ Len(unique_companies) = total_limit
  /\ total_limit >= 2
  /\ round = <<YP, SP>> /\ called = <<YP>>
  /\ last_call = YP
  /\ SP \in Active /\ gpc[SP] = "yield"

\* C15: the pulls follow a fixed round-robin order.  The first next() is called
\* on Yellow Pages; while both streams are active a next() is never called on the
\* stream of the call before it; a stream that reported its end is deactivated at
\* once and never called again; and in every round each stream active at its
\* start is called exactly once, in the order Yellow Pages, Superpages, whether
\* or not a stream ended in that round (unless the limit ends the round).
C15_RoundRobin ==
  /\ \A g \in Sources :
       /\ (Calling(g) /\ last_call = "none") => g = YP
       /\ (Calling(g) /\ Active = Sources /\ last_call # "none") => g # last_call
       /\ gpc[g] = "ended" => (g \notin Active /\ ~Calling(g))
  /\ \A i, j \in 1..Len(called) : i # j => called[i] # called[j]
  /\ pc = "for" => called = SubSeq(round, 1, idx)
  /\ (pc = "while" /\ Len(unique_companies) < total_limit) => called = round
  /\ round \in {<<>>, <<YP, SP>>, <<YP>>, <<SP>>}

\* Yellow Pages reported its end in a round after the first, and Superpages is
\* being called in that same round
C15_Witness ==
  /\ pc = "for"
  /\ round = <<YP, SP>> /\ called = <<YP, SP>>
  /\ gpc[YP] = "ended" /\ generators = <<SP>>
  /\ last_call = YP
  /\ pulled >= 2

\* the number of records a stream has emitted so far
Emitted(g) == BagCardinality(emitted[g])
\* a step in which the stream g passes over a listing (the continue of line 82)
SkipStep(g) ==
  gpc[g] = "listing" /\ gpc'[g] = "listing" /\ pos'[g] = pos[g] + 1

\* C16: a stream called with limit L emits at most L records and requests no
\* page once it has emitted L; a listing passed over for a missing or already
\* seen website is not emitted and is not counted: the count the stream compares
\* with L is the number of records it has emitted.
C16_StreamLimit ==
  /\ [](\A g \in Sources :
          /\ Emitted(g) <= per_source_limit
          /\ requested = g => Emitted(g) < per_source_limit
          /\ NoSite \notin BagToSet(emitted[g])
          /\ gpc[g] # "ended" =>
               Emitted(g) = businesses_scraped[g] + (IF gpc[g] = "yield" THEN 1 ELSE 0))
  /\ [][\A g \in Sources :
          SkipStep(g) =>
            /\ emitted' = emitted
            /\ businesses_scraped' = businesses_scraped
            /\ pulled' = pulled]_vars

\* a stream has emitted its L records and then ended by itself
C16_Witness ==
  \E g \in Sources :
    /\ gpc[g] = "ended" /\ failure[g] = "none"
    /\ Emitted(g) = per_source_limit
    /\ requested = "none"

\* C17: every stream is finite: whatever the site serves, also pages that are
\* not empty but whose listings are all passed over, the stream ends after
\* finitely many page requests (unless the aggregator stops calling it before).
C17_StreamsEnd ==
  /\ <>(gpc[YP] = "ended" \/ pc = "done")
  /\ <>(gpc[SP] = "ended" \/ pc = "done")

NoDigit(phone) == normalize_phone(phone) = <<>>

\* C18: phones without a digit, such as "N/A", normalize to the empty string and
\* match each other: a pulled record whose phone has no digit and whose name is
\* similar to that of an entry whose phone has no digit is judged a duplicate of
\* it and is folded into the collection (into that entry when no earlier entry
\* matches), however different the addresses.
C18_NoDigitPhonesMatch ==
  [][PullStep =>
       \A i \in 1..Len(unique_companies) :
         ( /\ NoDigit(unique_companies[i].Phone)
           /\ NoDigit(new_entry'.Phone)
           /\ fuzz_ratio(lower(unique_companies[i].Name), lower(new_entry'.Name))
                >= DefaultThreshold )
         => /\ is_duplicate(unique_companies[i], new_entry')
            /\ Len(unique_companies') = Len(unique_companies)
            /\ (\A j \in 1..(i - 1) : ~is_duplicate(unique_companies[j], new_entry'))
                 => unique_companies'[i] =
                      merge_entries(unique_companies[i], new_entry')]_vars

C18_Witness ==
  /\ pulled > 0
  /\ new_entry.Phone = NA
  /\ \E i \in 1..Len(unique_companies) :
       /\ unique_companies[i].Phone = NA
       /\ Len(unique_companies[i].Source) > 1
       /\ fuzz_ratio(lower(unique_companies[i].Name), lower(new_entry.Name))
            >= DefaultThreshold
       /\ fuzz_ratio(normalize_address(unique_companies[i].Address),
                     normalize_address(new_entry.Address)) < 50

\* the number of source labels of a Source: its chunks other than ", "
LabelCount(source) == Len(SelectSeq(source, LAMBDA c : c # ", "))
RECURSIVE TotalLabels(_)
TotalLabels(uc) ==
  IF uc = <<>> THEN 0 ELSE LabelCount(Head(uc).Source) + TotalLabels(Tail(uc))

\* C19: the source labels of all entries together are as many as the records
\* pulled so far: every pulled record was appended as one entry or folded into
\* exactly one entry.
C19_Conservation == TotalLabels(unique_companies) = pulled

C19_Witness ==
  /\ pulled >= 5
  /\ Len(unique_companies) = 2
  /\ \E i, j \in 1..Len(unique_companies) :
       /\ LabelCount(unique_companies[i].Source) >= 3
       /\ LabelCount(unique_companies[j].Source) = 1

\* C20: no entry of the collection has the website "N/A", no pulled record has
\* it, so merge_entries never adopts a website during aggregation, and the
\* Website at an index never changes once the entry is there.
C20_WebsiteKept ==
  /\ [](\A i \in 1..Len(unique_companies) : unique_companies[i].Website # NoSite)
  /\ [][PullStep => new_entry'.Website # NoSite]_vars
  /\ [][\A i \in 1..Len(unique_companies) :
          unique_companies'[i].Website = unique_companies[i].Website]_vars

\* a record with another website went into an entry
C20_Witness ==
  /\ pulled > 0
  /\ \E i \in Matching(unique_companies, new_entry) :
       /\ Len(unique_companies[i].Source) > 1
       /\ unique_companies[i].Website # new_entry.Website
       /\ \A j \in 1..(i - 1) : ~is_duplicate(unique_companies[j], new_entry)
=============================================================================
